---- MODULE Spec2Model ----
(***************************************************************************)
(* A model of db-dox-etl: the run/step audit records, run-guid allocation, *)
(* the sqlglot dialect registry, the phase/step definition registry, the   *)
(* logging context and the query registry.  Each component has its own     *)
(* specification over the shared variables; the components it does not     *)
(* exercise stay in their initial state.                                   *)
(***************************************************************************)
EXTENDS Integers, Sequences, FiniteSets, TLC

VARIABLES
    \* db_target/models/meta/meta.py: rows of meta.etl_run_audit / etl_step_audit
    run_audits, step_audits, audit_error,
    \* app_settings/utils.py, etl_logging: run guid allocation
    uuid_drawn, run_guid_cache, log_settings, log_constants,
    \* app_settings/utils.py: the sqlglot dialect registry
    sqlglot_classes, dialect_registry, dialect_get,
    \* definitions/etl_definitions.py: the phase/step definition registry
    etl_definitions, def_loaded,
    PHASES, STEPS, PHASE_BY_KEY, PHASE_BY_ID, STEP_BY_KEY, STEP_BY_ID, def_call,
    \* etl_logging/etl_log_context.py: the logging context
    log_context, ctx_call,
    \* db_sources/query_model.py: the query registry, its files, the collections
    registry_yaml, files, query_call, queries, queries_call,
    \* db_sources/query_model.py: the text of the query files, a Query, its reads
    file_text, query_obj, sql_reads,
    \* app_settings/models.py: a database descriptor and its connection strings
    db_settings, conn_calls,
    \* app_settings/utils.py: a call of _derive_dialect_from_sql_type
    derive_call,
    \* etl_logging/etl_logging.py: the log and the calls of a wrapped step
    step_log, wrap_calls,
    \* db_target/models/meta/meta_seed.py: the seeded tables, the calls made
    seed_db, seed_calls

auditVars == <<run_audits, step_audits, audit_error>>
guidVars  == <<uuid_drawn, run_guid_cache, log_settings, log_constants>>
dialectVars == <<sqlglot_classes, dialect_registry, dialect_get>>
defVars == <<etl_definitions, def_loaded,
             PHASES, STEPS, PHASE_BY_KEY, PHASE_BY_ID, STEP_BY_KEY, STEP_BY_ID>>
ctxVars == <<log_context, ctx_call>>
regVars == <<registry_yaml, files, query_call>>
colVars == <<queries, queries_call>>
textVars == <<file_text, query_obj, sql_reads>>
connVars == <<db_settings, conn_calls>>
stepVars == <<step_log, wrap_calls>>
seedVars == <<seed_db, seed_calls>>
vars == <<auditVars, guidVars, dialectVars, defVars, def_call, ctxVars,
          regVars, colVars, textVars, connVars,
         derive_call, stepVars, seedVars>>

(***************************************************************************)
(* Bounds of the model.                                                    *)
(***************************************************************************)
MaxRuns == 2
MaxStepAudits == 2
MaxSettings == 5
MaxPhases == 2
MaxSteps == 3
MaxCursorPhases == 1
MaxCursorSteps == 1
MaxNodes == 3
MaxQueries == 3
MaxReads == 2
MaxConnCalls == 2
MaxWrapCalls == 1
MaxSeedCalls == 3

None == "None"

\* what an operation of one component leaves alone: the other components
AuditFrame == UNCHANGED <<guidVars, dialectVars, defVars, def_call, ctxVars,
                         regVars, colVars, textVars, connVars,
         derive_call, stepVars, seedVars>>
GuidFrame  == UNCHANGED <<auditVars, dialectVars, defVars, def_call, ctxVars,
                         regVars, colVars, textVars, connVars,
         derive_call, stepVars, seedVars>>
DialectFrame == UNCHANGED <<auditVars, guidVars, defVars, def_call, ctxVars,
                         regVars, colVars, textVars, connVars,
         derive_call, stepVars, seedVars>>
DefFrame == UNCHANGED <<auditVars, guidVars, dialectVars, ctxVars,
                        regVars, colVars, textVars, connVars,
         derive_call, stepVars, seedVars>>
RegFrame == UNCHANGED <<auditVars, guidVars, dialectVars, defVars, def_call,
                        ctxVars, colVars, textVars, connVars,
         derive_call, stepVars, seedVars>>
ColFrame == UNCHANGED <<auditVars, guidVars, dialectVars, defVars, def_call,
                        ctxVars, regVars, textVars, connVars,
         derive_call, stepVars, seedVars>>
ConnFrame == UNCHANGED <<auditVars, guidVars, dialectVars, defVars, def_call,
                         ctxVars, regVars, colVars, textVars,
                         derive_call, stepVars, seedVars>>
DeriveFrame == UNCHANGED <<auditVars, guidVars, dialectVars, defVars, def_call,
                         ctxVars, regVars, colVars, textVars, connVars,
                         stepVars, seedVars>>
StepFrame == UNCHANGED <<guidVars, dialectVars, defVars, def_call,
                         regVars, colVars, textVars, connVars,
                         derive_call, seedVars>>
CtxFrame == UNCHANGED <<auditVars, guidVars, dialectVars, defVars, def_call,
                         regVars, colVars, textVars, connVars,
         derive_call, stepVars, seedVars>>

(***************************************************************************)
(* Python strings that the code takes apart are sequences of characters.   *)
(***************************************************************************)
\* sub in s
Contains(s, sub) ==
    \E i \in 1..(Len(s) - Len(sub) + 1) : SubSeq(s, i, i + Len(sub) - 1) = sub

\* s.split(c)[0]: the part of s before the first c, all of s when c is not in s
SplitFirst(s, c) ==
    IF \E i \in DOMAIN s : s[i] = c
    THEN LET first == CHOOSE i \in DOMAIN s :
                          s[i] = c /\ \A j \in 1..(i - 1) : s[j] # c
         IN SubSeq(s, 1, first - 1)
    ELSE s

\* Python's None where a string is expected
PyNone == <<"None">>

\* a dict with no entry
EmptyDict == [k \in {} |-> k]

\* the lists of at most n elements of S
SeqsUpTo(S, n) == UNION {[1..k -> S] : k \in 0..n}

Range(s) == {s[i] : i \in DOMAIN s}

(***************************************************************************)
(* Run/step audit rows (db_target/models/meta).                            *)
(***************************************************************************)
ETLStatusCodeType == {"STARTED", "SUCCESS", "FAILED", "PARTIAL", "SKIPPED"}

\* the column default of status_code, applied when the row is inserted
StatusCodeDefault == "STARTED"

\* ETLRunAudit(etl_run_guid = g, ...) added and flushed: the unique constraint
\* on etl_run_guid rejects a guid already stored; status_code takes its default.
\* A nullable column is the empty sequence for NULL and <<n>> for the value n;
\* total_rows_written and error_count are columns of the same kind as
\* total_rows_read, rows_written of the same kind as rows_read.
ETLRunAudit(g) ==
    [id |-> Len(run_audits) + 1, etl_run_guid |-> g,
     status_code |-> StatusCodeDefault, end_time_utc |-> None,
     total_rows_read |-> <<>>]

InsertRunAudit(g) ==
    /\ Len(run_audits) < MaxRuns
    /\ IF \E i \in DOMAIN run_audits : run_audits[i].etl_run_guid = g
       THEN /\ audit_error' = "IntegrityError"
            /\ UNCHANGED <<run_audits, step_audits>>
       ELSE /\ run_audits' = Append(run_audits, ETLRunAudit(g))
            /\ audit_error' = None
            /\ UNCHANGED step_audits
    /\ AuditFrame

\* ETLStepAudit(etl_run_id = r, ...) added and flushed.
ETLStepAudit(r) ==
    [id |-> Len(step_audits) + 1, etl_run_id |-> r,
     status_code |-> StatusCodeDefault, end_time_utc |-> None,
     rows_read |-> <<>>, error_message |-> None]

InsertStepAudit(r) ==
    /\ Len(step_audits) < MaxStepAudits
    /\ r \in DOMAIN run_audits
    /\ step_audits' = Append(step_audits, ETLStepAudit(r))
    /\ audit_error' = None
    /\ UNCHANGED run_audits
    /\ AuditFrame

\* run.status_code = s; run.end_time_utc = now: status_code is a plain mapped
\* column, any member of the enum is accepted whatever the current value is.
SetRunStatus(i, s) ==
    /\ i \in DOMAIN run_audits
    /\ run_audits' = [run_audits EXCEPT ![i].status_code = s,
                                        ![i].end_time_utc = "set"]
    /\ audit_error' = None
    /\ UNCHANGED step_audits
    /\ AuditFrame

SetStepStatus(i, s) ==
    /\ i \in DOMAIN step_audits
    /\ step_audits' = [step_audits EXCEPT ![i].status_code = s,
                                          ![i].end_time_utc = "set"]
    /\ audit_error' = None
    /\ UNCHANGED run_audits
    /\ AuditFrame

\* the values the row counters are given
RowCounts == {1, 2}

\* step.rows_read = n: a plain mapped column
SetStepRows(i, n) ==
    /\ i \in DOMAIN step_audits
    /\ step_audits' = [step_audits EXCEPT ![i].rows_read = <<n>>]
    /\ audit_error' = None
    /\ UNCHANGED run_audits
    /\ AuditFrame

\* run.total_rows_read = n: a plain mapped column
SetRunTotals(i, n) ==
    /\ i \in DOMAIN run_audits
    /\ run_audits' = [run_audits EXCEPT ![i].total_rows_read = <<n>>]
    /\ audit_error' = None
    /\ UNCHANGED step_audits
    /\ AuditFrame

InitAudit ==
    /\ run_audits = <<>>
    /\ step_audits = <<>>
    /\ audit_error = None

RunGuids == {"g1", "g2"}

NextAudit ==
    \/ \E g \in RunGuids : InsertRunAudit(g)
    \/ \E r \in 1..MaxRuns : InsertStepAudit(r)
    \/ \E i \in 1..MaxRuns, s \in ETLStatusCodeType : SetRunStatus(i, s)
    \/ \E i \in 1..MaxStepAudits, s \in ETLStatusCodeType : SetStepStatus(i, s)

\* the rows of a run and its steps with their counters; a run is completed
\* by giving it the status SUCCESS
NextTotals ==
    \/ \E g \in RunGuids : InsertRunAudit(g)
    \/ \E r \in 1..MaxRuns : InsertStepAudit(r)
    \/ \E i \in 1..MaxStepAudits, n \in RowCounts : SetStepRows(i, n)
    \/ \E i \in 1..MaxRuns, n \in RowCounts : SetRunTotals(i, n)
    \/ \E i \in 1..MaxRuns : SetRunStatus(i, "SUCCESS")

(***************************************************************************)
(* Run guid allocation (app_settings/utils.py, app_settings/models.py,     *)
(* etl_logging/etl_logging.py).                                            *)
(***************************************************************************)
\* str(uuid4()): a value never drawn before (uuid4 collisions are not modelled);
\* the k-th draw of the process is the guid k.
uuid4 == uuid_drawn + 1

\* @lru_cache on a function of no arguments: the first call computes and stores
\* the value, every later call returns the stored value without calling uuid4.
CacheMiss == run_guid_cache = 0

generate_run_guid == IF CacheMiss THEN uuid4 ELSE run_guid_cache

\* LogSettings(): run_guid = PrivateAttr(default_factory = generate_run_guid)
NewLogSettings ==
    /\ Len(log_settings) < MaxSettings
    /\ log_settings' = Append(log_settings, [run_guid |-> generate_run_guid])
    /\ run_guid_cache' = generate_run_guid
    /\ uuid_drawn' = IF CacheMiss THEN uuid_drawn + 1 ELSE uuid_drawn
    /\ UNCHANGED log_constants
    /\ GuidFrame

\* etl_logging: generate_etl_run_guid() is not cached
generate_etl_run_guid == uuid4

\* ETLLogConstants(...): self.run_guid = generate_etl_run_guid()
NewETLLogConstants ==
    /\ Len(log_constants) < MaxSettings
    /\ log_constants' = Append(log_constants, [run_guid |-> generate_etl_run_guid])
    /\ uuid_drawn' = uuid_drawn + 1
    /\ UNCHANGED <<log_settings, run_guid_cache>>
    /\ GuidFrame

InitGuid ==
    /\ uuid_drawn = 0
    /\ run_guid_cache = 0
    /\ log_settings = <<>>
    /\ log_constants = <<>>

NextGuid ==
    \/ NewLogSettings
    \/ NewETLLogConstants


(***************************************************************************)
(* The sqlglot dialect registry (app_settings/utils.py).                   *)
(***************************************************************************)
S_postgresql    == <<"p","o","s","t","g","r","e","s","q","l">>
S_mysql         == <<"m","y","s","q","l">>
S_mysql_pymysql == <<"m","y","s","q","l","+","p","y","m","y","s","q","l">>
S_mssql         == <<"m","s","s","q","l">>
S_sqlite        == <<"s","q","l","i","t","e">>
S_tsql          == <<"t","s","q","l">>
S_postgres      == <<"p","o","s","t","g","r","e","s">>
S_oracle        == <<"o","r","a","c","l","e">>

\* class SqlType(Enum): the values, in the order the enum declares them
SqlType == <<S_postgresql, S_mysql, S_mysql_pymysql, S_mssql, S_sqlite>>

\* the dialect names an installed sqlglot may know (sqlglot.Dialect.classes)
DialectNames ==
    {S_tsql, S_mysql, S_postgres, S_sqlite, S_postgresql, S_mssql, S_oracle}

\* Python's None where a dialect class is expected
NoDialect == PyNone

\* sqlglot.Dialect.get(key): the dialect class registered under key, or None
Dialect_get(key) == IF key \in sqlglot_classes THEN key ELSE NoDialect

\* the derivation without its rule for mssql
_derive_dialect_without_mssql(type_name) ==
    IF Contains(type_name, <<"+">>)
    THEN Dialect_get(SplitFirst(type_name, "+"))
    ELSE IF Contains(type_name, S_postgres) THEN Dialect_get(S_postgres)
    ELSE Dialect_get(type_name)

\* SqlGlotDialectRegistry._derive_dialect_from_sql_type, type_name = sql_type.value
_derive_dialect_from_sql_type(type_name) ==
    IF type_name = S_mssql THEN Dialect_get(S_tsql)
    ELSE IF Contains(type_name, <<"+">>)
         THEN Dialect_get(SplitFirst(type_name, "+"))
    ELSE IF Contains(type_name, S_postgres) THEN Dialect_get(S_postgres)
    ELSE Dialect_get(type_name)

\* the local m of __post_init__ once the loop has run over every SqlType
PostInitLocal ==
    [t \in Range(SqlType) |-> _derive_dialect_from_sql_type(t)]

\* what __post_init__ leaves in self.mapping: the loop fills the local m and
\* nothing assigns it to the field, which keeps its default_factory value.
PostInitMapping(m) == EmptyDict

\* SqlGlotDialectRegistry(): raises ValueError at the first SqlType that
\* derives no dialect class, and no instance exists then.
NewSqlGlotDialectRegistry ==
    /\ dialect_registry.state = "none"
    /\ dialect_registry' =
          IF \E i \in DOMAIN SqlType :
                 _derive_dialect_from_sql_type(SqlType[i]) = NoDialect
          THEN [state |-> "ValueError", mapping |-> EmptyDict]
          ELSE [state |-> "built", mapping |-> PostInitMapping(PostInitLocal)]
    /\ UNCHANGED <<sqlglot_classes, dialect_get>>
    /\ DialectFrame

\* registry.get(sql_type): self.mapping[sql_type](), KeyError turned into ValueError
SqlGlotDialectRegistry_get(sql_type) ==
    /\ dialect_registry.state = "built"
    /\ dialect_get' =
          IF sql_type \in DOMAIN dialect_registry.mapping
          THEN [called |-> TRUE, sql_type |-> sql_type, raised |-> None,
                dialect |-> dialect_registry.mapping[sql_type]]
          ELSE [called |-> TRUE, sql_type |-> sql_type, raised |-> "ValueError",
                dialect |-> NoDialect]
    /\ UNCHANGED <<sqlglot_classes, dialect_registry>>
    /\ DialectFrame

\* no registry constructed, get not called yet
NoRegistry == [state |-> "none", mapping |-> EmptyDict]
NoGet == [called |-> FALSE, sql_type |-> <<>>, raised |-> None, dialect |-> NoDialect]

NoDerive == [called |-> FALSE, sql_type |-> <<>>, dialect |-> NoDialect]

\* registry._derive_dialect_from_sql_type(sql_type) on a constructed registry
DeriveDialect(sql_type) ==
    /\ dialect_registry.state = "built"
    /\ derive_call' = [called |-> TRUE, sql_type |-> sql_type,
                       dialect |-> _derive_dialect_from_sql_type(sql_type)]
    /\ DeriveFrame

InitDerive == derive_call = NoDerive

NextDerive ==
    \/ NewSqlGlotDialectRegistry
    \/ \E i \in DOMAIN SqlType : DeriveDialect(SqlType[i])

InitDialect ==
    /\ sqlglot_classes = {S_tsql, S_mysql, S_postgres, S_sqlite}
    /\ dialect_registry = NoRegistry
    /\ dialect_get = NoGet

NextDialect ==
    \/ NewSqlGlotDialectRegistry
    \/ \E i \in DOMAIN SqlType : SqlGlotDialectRegistry_get(SqlType[i])

\* C3: once a registry has been constructed, get(t) returns a dialect for every
\* SqlType t: no call of get ends in the 'no dialect registered' error.
C3_GetNeverUnregistered ==
    dialect_get.called => dialect_get.raised = None /\ dialect_get.dialect # NoDialect

\* C17: the dialect of a type is that of the key 'tsql' for mssql, else of
\* the part before the first '+' of a name that has one, else of 'postgres'
\* for a name containing it, else of the name itself; so mysql+pymysql
\* gives the dialect of mysql and postgresql that of postgres.
C17_DialectKeyByFirstRule ==
    derive_call.called =>
        LET name == derive_call.sql_type
            plus == {k \in DOMAIN name : name[k] = "+"}
            key == IF name = S_mssql THEN S_tsql
                   ELSE IF plus # {}
                   THEN SubSeq(name, 1,
                               (CHOOSE k \in plus : \A j \in plus : k <= j) - 1)
                   ELSE IF \E k \in 1..(Len(name) - Len(S_postgres) + 1) :
                               SubSeq(name, k, k + Len(S_postgres) - 1)
                                 = S_postgres
                   THEN S_postgres
                   ELSE name
        IN /\ derive_call.dialect = key
           /\ name = S_mysql_pymysql => derive_call.dialect = S_mysql
           /\ name = S_postgresql => derive_call.dialect = S_postgres

\* C18: constructing the registry raises exactly when some SqlType derives
\* no dialect, and a registry that was constructed covers every SqlType,
\* never a part of them.
C18_NoPartialRegistry ==
    /\ dialect_registry.state = "ValueError" =>
           \E i \in DOMAIN SqlType :
               _derive_dialect_from_sql_type(SqlType[i]) = NoDialect
    /\ dialect_registry.state = "built" =>
           /\ \A i \in DOMAIN SqlType :
                  _derive_dialect_from_sql_type(SqlType[i]) # NoDialect
           /\ DOMAIN dialect_registry.mapping = Range(SqlType)

\* the dialect derived for mysql+pymysql
C17_Witness ==
    /\ derive_call.called
    /\ derive_call.sql_type = S_mysql_pymysql
    /\ derive_call.dialect = S_mysql



(***************************************************************************)
(* The phase/step definition registry (definitions/etl_definitions.py).    *)
(* name and description of a definition are carried by no operation and    *)
(* are left out of the records.                                            *)
(***************************************************************************)
PhaseIds == {1, 2}
PhaseKeys == {<<"e">>, <<"t">>}
StepIds == {1, 2}
StepNames == {[key |-> "k1", code |-> <<"e", ".", "s">>],
              [key |-> "k2", code |-> <<"t", ".", "d">>]}

\* EtlPhaseDefinition(**phase), EtlStepDefinition(**step)
EtlPhaseDefinition == [id : PhaseIds, key : PhaseKeys]
EtlStepDefinition ==
    {[id |-> i, phase_id |-> p, key |-> n.key, code |-> n.code] :
        i \in StepIds, p \in PhaseIds, n \in StepNames}

\* {x.f: x for x in items}: built in list order, a later item replaces an
\* earlier one that has the same key
RECURSIVE DictComp(_, _)
DictComp(items, f) ==
    IF Len(items) = 0 THEN EmptyDict
    ELSE LET d == DictComp(SubSeq(items, 1, Len(items) - 1), f)
             x == items[Len(items)]
         IN [k \in DOMAIN d \cup {x[f]} |-> IF k = x[f] THEN x ELSE d[k]]

\* import definitions: the module body, lines 30-46
LoadDefinitions ==
    /\ ~def_loaded
    /\ def_loaded' = TRUE
    /\ PHASES' = etl_definitions.phases
    /\ STEPS' = etl_definitions.steps
    /\ PHASE_BY_KEY' = DictComp(etl_definitions.phases, "key")
    /\ PHASE_BY_ID' = DictComp(etl_definitions.phases, "id")
    /\ STEP_BY_KEY' = DictComp(etl_definitions.steps, "key")
    /\ STEP_BY_ID' = DictComp(etl_definitions.steps, "id")
    /\ UNCHANGED <<etl_definitions, def_call>>
    /\ UNCHANGED <<auditVars, guidVars, dialectVars, regVars, colVars, textVars, connVars,
         derive_call, stepVars, seedVars>>

\* a filter that yields the matching steps last to first
RECURSIVE StepsOfPhaseIdReversed(_, _)
StepsOfPhaseIdReversed(steps, phase_id) ==
    IF Len(steps) = 0 THEN <<>>
    ELSE LET rest == StepsOfPhaseIdReversed(Tail(steps), phase_id)
         IN IF Head(steps).phase_id = phase_id
            THEN rest \o <<Head(steps)>>
            ELSE rest

\* (step for step in steps if step.phase_id == phase_id), run to its end
RECURSIVE StepsOfPhaseId(_, _)
StepsOfPhaseId(steps, phase_id) ==
    IF Len(steps) = 0 THEN <<>>
    ELSE LET rest == StepsOfPhaseId(Tail(steps), phase_id)
         IN IF Head(steps).phase_id = phase_id
            THEN <<Head(steps)>> \o rest
            ELSE rest

\* iter_steps_in_phase(phase_key), the generator consumed
iter_steps_in_phase(phase_key) ==
    /\ def_loaded
    /\ def_call' =
          IF phase_key \in DOMAIN PHASE_BY_KEY
          THEN [op |-> "iter_steps_in_phase", phase_key |-> phase_key,
                raised |-> None,
                steps |-> StepsOfPhaseId(STEPS, PHASE_BY_KEY[phase_key].id)]
          ELSE [op |-> "iter_steps_in_phase", phase_key |-> phase_key,
                raised |-> "KeyError", steps |-> <<>>]
    /\ UNCHANGED defVars
    /\ DefFrame

\* get_phase_of_step(step)
get_phase_of_step(step) ==
    /\ def_loaded
    /\ def_call' =
          IF step.phase_id \in DOMAIN PHASE_BY_ID
          THEN [op |-> "get_phase_of_step", step |-> step, raised |-> None,
                phase |-> <<PHASE_BY_ID[step.phase_id]>>]
          ELSE [op |-> "get_phase_of_step", step |-> step,
                raised |-> "KeyError", phase |-> <<>>]
    /\ UNCHANGED defVars
    /\ DefFrame

NoCall == [op |-> None]

\* before the module is imported nothing is defined
InitDefsWith(defs) ==
    /\ etl_definitions = defs
    /\ def_loaded = FALSE
    /\ PHASES = <<>>
    /\ STEPS = <<>>
    /\ PHASE_BY_KEY = EmptyDict
    /\ PHASE_BY_ID = EmptyDict
    /\ STEP_BY_KEY = EmptyDict
    /\ STEP_BY_ID = EmptyDict
    /\ def_call = NoCall

\* the content of etl_steps_and_phases.json: any two lists of definitions
DefinitionFiles ==
    [phases : SeqsUpTo(EtlPhaseDefinition, MaxPhases),
     steps : SeqsUpTo(EtlStepDefinition, MaxSteps)]

InitNoDefs == InitDefsWith([phases |-> <<>>, steps |-> <<>>])

NextDefs ==
    \/ LoadDefinitions /\ UNCHANGED ctxVars
    \/ \E k \in PhaseKeys : iter_steps_in_phase(k)
    \/ \E i \in DOMAIN STEPS : get_phase_of_step(STEPS[i])


(***************************************************************************)
(* The logging context (etl_logging/etl_step.py, etl_log_context.py).      *)
(***************************************************************************)
S_pipeline_main == <<"p","i","p","e","l","i","n","e",".","m","a","i","n">>
S_transform_audit ==
    <<"t","r","a","n","s","f","o","r","m",".","a","u","d","i","t">>

\* class EtlStep(StrEnum): two of its members, by value
EtlStep == {S_pipeline_main, S_transform_audit}

\* EtlStepType = Union[str, EtlStep]: the steps a caller passes
StepStrings == {n.code : n \in StepNames} \cup {<<"p">>}
EtlStepType ==
    [kind : {"str"}, value : StepStrings] \cup [kind : {"enum"}, value : EtlStep]

\* no step passed (etl_step = None)
NoStep == [kind |-> "none", value |-> PyNone]

\* step_to_str(step): the value of an enum member, a string as it is
step_to_str(step) == IF step.kind = "enum" THEN step.value ELSE step.value

\* a derivation that keeps the whole step string
get_phase_from_step_whole(step) == step_to_str(step)

\* get_phase_from_step(step): step_to_str(step).split(".")[0]
get_phase_from_step(step) == SplitFirst(step_to_str(step), ".")

\* the placeholder of a field that is not known
Placeholder == <<"-">>

\* a constructor that keeps None where no run guid is given
ETLLogContext_keeps_none(source_db_name, etl_run_guid, etl_step) ==
    [source_db_name |-> IF source_db_name # PyNone THEN source_db_name
                        ELSE Placeholder,
     etl_run_guid |-> etl_run_guid,
     etl_step |-> IF etl_step # NoStep THEN step_to_str(etl_step) ELSE Placeholder,
     etl_phase |-> IF etl_step # NoStep THEN get_phase_from_step(etl_step)
                   ELSE Placeholder]

\* ETLLogContext(source_db_name, etl_run_guid, etl_step)
ETLLogContext(source_db_name, etl_run_guid, etl_step) ==
    [source_db_name |-> IF source_db_name # PyNone THEN source_db_name
                        ELSE Placeholder,
     etl_run_guid |-> IF etl_run_guid # PyNone THEN etl_run_guid ELSE Placeholder,
     etl_step |-> IF etl_step # NoStep THEN step_to_str(etl_step) ELSE Placeholder,
     etl_phase |-> IF etl_step # NoStep THEN get_phase_from_step(etl_step)
                   ELSE Placeholder]

SourceDbNames == {<<"d", "b">>}
RunGuidStrings == {<<"g">>}

NewETLLogContext(source_db_name, etl_run_guid, etl_step) ==
    /\ log_context' = ETLLogContext(source_db_name, etl_run_guid, etl_step)
    /\ ctx_call' = [op |-> "__init__", etl_step |-> etl_step,
                    source_db_name |-> source_db_name,
                    etl_run_guid |-> etl_run_guid]
    /\ CtxFrame

\* context.update_step(etl_step)
update_step(etl_step) ==
    /\ log_context' = [log_context EXCEPT
                          !.etl_step = step_to_str(etl_step),
                          !.etl_phase = get_phase_from_step(etl_step)]
    /\ ctx_call' = [op |-> "update_step", etl_step |-> etl_step,
                    source_db_name |-> PyNone, etl_run_guid |-> PyNone]
    /\ CtxFrame

\* an update of the name that also puts the step back to the placeholder
update_source_db_name_resets(source_db_name) ==
    /\ log_context' = [log_context EXCEPT !.source_db_name = source_db_name,
                                          !.etl_step = Placeholder]
    /\ ctx_call' = [op |-> "update_source_db_name", etl_step |-> NoStep,
                    source_db_name |-> source_db_name,
                    etl_run_guid |-> PyNone]
    /\ CtxFrame

\* context.update_source_db_name(source_db_name)
update_source_db_name(source_db_name) ==
    /\ log_context' = [log_context EXCEPT !.source_db_name = source_db_name]
    /\ ctx_call' = [op |-> "update_source_db_name", etl_step |-> NoStep,
                    source_db_name |-> source_db_name,
                    etl_run_guid |-> PyNone]
    /\ CtxFrame

\* the context get_etl_logger makes when it is given none: ETLLogContext()
InitContext ==
    /\ log_context = ETLLogContext(PyNone, PyNone, NoStep)
    /\ ctx_call = [op |-> None, etl_step |-> NoStep,
                   source_db_name |-> PyNone, etl_run_guid |-> PyNone]

NextContext ==
    \/ LoadDefinitions /\ UNCHANGED ctxVars
    \/ \E n \in SourceDbNames \cup {PyNone}, g \in RunGuidStrings \cup {PyNone},
          st \in EtlStepType \cup {NoStep} : NewETLLogContext(n, g, st)
    \/ \E st \in EtlStepType : update_step(st)
    \/ \E n \in SourceDbNames : update_source_db_name(n)


(***************************************************************************)
(* The wrapper of an ETL step (etl_logging/etl_logging.py, log_etl_step).  *)
(***************************************************************************)
\* what the wrapped function returns
Results == {"r1", "r2"}

\* what it raises: subclasses of Exception, and a BaseException that is none
Exceptions == {"ValueError", "RuntimeError"}
BaseExceptions == Exceptions \cup {"KeyboardInterrupt"}

\* what a call of the wrapped function does
Works ==
    {[kind |-> "return", value |-> v, exc |-> None] : v \in Results}
      \cup {[kind |-> "raise", value |-> None, exc |-> e] : e \in BaseExceptions}

\* ETLLogContext.to_bind_kwargs: the fields of the context that are not None
to_bind_kwargs(self) ==
    [k \in {f \in DOMAIN self : self[f] # PyNone} |-> self[k]]

\* get_etl_logger(logger_context): logger.bind(**to_bind_kwargs()), the
\* extra fields of every record the returned logger emits
get_etl_logger(logger_context) == to_bind_kwargs(logger_context)

\* the fields _add_default_extra gives a default
DefaultExtraKeys ==
    {"app_name", "source_db_name", "etl_run_guid", "etl_run_id", "etl_phase",
     "etl_step"}

\* a patcher that writes "-" over the fields that are bound
_add_default_extra_overwrites(extra) ==
    [k \in DOMAIN extra \cup DefaultExtraKeys |->
        IF k \in DefaultExtraKeys THEN Placeholder ELSE extra[k]]

\* _add_default_extra(record): extra.setdefault(key, "-") for each field
_add_default_extra(extra) ==
    [k \in DOMAIN extra \cup DefaultExtraKeys |->
        IF k \in DOMAIN extra THEN extra[k] ELSE Placeholder]

\* a record emitted through a bound logger: logger is patched with
\* _add_default_extra
LogRecord(call, level, message, exception, extra) ==
    [call |-> call, level |-> level, message |-> message,
     exception |-> exception, extra |-> _add_default_extra(extra)]

\* a wrapper that logs nothing when the function returns
wrapper_silent_return(call, work, context) ==
    LET step_logger == get_etl_logger(context)
        start == LogRecord(call, "INFO", "Starting ETL step", None, step_logger)
    IN IF work.kind = "return"
       THEN [logs |-> <<start>>, raised |-> None, result |-> work.value]
       ELSE [logs |-> <<start,
                        LogRecord(call, "ERROR", "ETL step failed", work.exc,
                                  step_logger)>>,
             raised |-> work.exc, result |-> None]

\* wrapper(*args, **kwargs): binds a logger to the context as it is now, logs
\* the start, calls func, logs the end and returns the result; on an
\* Exception logs it with its traceback and raises it again; any other
\* BaseException passes through the try.
wrapper(call, work, context) ==
    LET step_logger == get_etl_logger(context)
        start == LogRecord(call, "INFO", "Starting ETL step", None, step_logger)
    IN IF work.kind = "return"
       THEN [logs |-> <<start,
                        LogRecord(call, "INFO", "Completed ETL step", None,
                                  step_logger)>>,
             raised |-> None, result |-> work.value]
       ELSE IF work.exc \in Exceptions
       THEN [logs |-> <<start,
                        LogRecord(call, "ERROR", "ETL step failed", work.exc,
                                  step_logger)>>,
             raised |-> work.exc, result |-> None]
       ELSE [logs |-> <<start>>, raised |-> work.exc, result |-> None]

\* a call of a function decorated with log_etl_step(log_context); the body
\* of the function may move the context to another step (during), and the
\* wrapper reads and writes no audit row
CallWrappedStep(work, during) ==
    /\ Len(wrap_calls) < MaxWrapCalls
    /\ LET w == wrapper(Len(wrap_calls) + 1, work, log_context)
       IN /\ step_log' = step_log \o w.logs
          /\ wrap_calls' = Append(wrap_calls,
                                  [work |-> work, raised |-> w.raised,
                                   result |-> w.result, context |-> log_context,
                                   bound |-> to_bind_kwargs(log_context),
                                   during |-> during])
    /\ IF during = NoStep
       THEN UNCHANGED ctxVars
       ELSE /\ log_context' = [log_context EXCEPT
                                  !.etl_step = step_to_str(during),
                                  !.etl_phase = get_phase_from_step(during)]
            /\ ctx_call' = [op |-> "update_step", etl_step |-> during,
                            source_db_name |-> PyNone, etl_run_guid |-> PyNone]
    /\ UNCHANGED auditVars
    /\ StepFrame

InitStep ==
    /\ step_log = <<>>
    /\ wrap_calls = <<>>

\* steps run while the audit rows of the run and of its steps exist
NextStep ==
    \/ \E g \in RunGuids : InsertRunAudit(g)
    \/ \E r \in 1..MaxRuns : InsertStepAudit(r)
    \/ \E work \in Works : CallWrappedStep(work, NoStep)

\* the steps the context is moved to around and inside wrapped calls
WrapperSteps ==
    {[kind |-> "str", value |-> <<"e", ".", "s">>],
     [kind |-> "enum", value |-> S_transform_audit]}

\* wrapped calls between updates of the context
NextWrapper ==
    \/ \E g \in RunGuidStrings \cup {PyNone} : NewETLLogContext(PyNone, g, NoStep)
    \/ \E st \in WrapperSteps : update_step(st)
    \/ \E n \in SourceDbNames : update_source_db_name(n)
    \/ \E work \in Works, during \in WrapperSteps \cup {NoStep} :
          CallWrappedStep(work, during)


(***************************************************************************)
(* db_target/models/meta/meta_seed.py: seeding the phase and step tables.  *)
(***************************************************************************)
\* the names etl_logging/etl_step.py defines at module level
etl_step_names == {"EtlStep", "EtlStepType", "step_to_str", "get_phase_from_step"}

\* from etl_logging.etl_step import ...: the names meta_seed.py asks for
meta_seed_imports ==
    {"EtlStep", "step_to_str", "get_phase_from_step", "normalize_step_name"}

\* the attributes of the mapped classes of db_target/models/meta/meta.py
ETLPhase_attrs ==
    {"id", "phase_type", "display_name", "description", "sort_order",
     "created_at", "last_updated_at", "steps"}

ETLStep_attrs ==
    {"id", "etl_phase_id", "step_type", "display_name", "step_order",
     "is_active", "description", "created_at", "last_updated_at", "phase",
     "step_audits"}

\* for step in EtlStep: three of the members, in the order of definition
EtlStepMembers ==
    << [name |-> "PIPELINE", value |-> S_pipeline_main],
       [name |-> "EXTRACT_SYS_SCHEMAS",
        value |-> <<"e","x","t","r","a","c","t",".","s","y","s",".",
                    "s","c","h","e","m","a","s">>],
       [name |-> "TRANSFORM_AUDIT", value |-> S_transform_audit] >>

\* no row returned
NoRow == [id |-> 0]

SeedFrame == UNCHANGED <<auditVars, guidVars, dialectVars, defVars, def_call,
                         ctxVars, regVars, colVars, textVars, connVars,
                         derive_call, stepVars>>

\* importing meta_seed: line 5 asks etl_step for a name it does not define
import_meta_seed ==
    IF meta_seed_imports \subseteq etl_step_names THEN None ELSE "ImportError"

\* add_phase(phase_name): ETLPhase.name is looked up on the class; the row
\* is found or inserted with the keywords name and description
add_phase(db, phase_name) ==
    IF "name" \notin ETLPhase_attrs
    THEN [raised |-> "AttributeError", db |-> db, row |-> NoRow]
    ELSE LET found == {i \in DOMAIN db.etl_phase :
                          db.etl_phase[i].name = phase_name}
         IN IF Cardinality(found) > 1
            THEN [raised |-> "MultipleResultsFound", db |-> db, row |-> NoRow]
            ELSE IF found # {}
            THEN [raised |-> None, db |-> db,
                  row |-> db.etl_phase[CHOOSE i \in found : TRUE]]
            ELSE IF ~({"name", "description"} \subseteq ETLPhase_attrs)
            THEN [raised |-> "TypeError", db |-> db, row |-> NoRow]
            ELSE LET phase == [id |-> Len(db.etl_phase) + 1,
                               name |-> phase_name, description |-> None]
                 IN [raised |-> None,
                     db |-> [db EXCEPT !.etl_phase = Append(@, phase)],
                     row |-> phase]

\* add_step(step_name, step_code, phase): ETLStep.name is looked up on the
\* class; the row is found or inserted with the keywords phase_id, name,
\* code, phase and description
add_step(db, step_name, step_code, phase) ==
    IF "name" \notin ETLStep_attrs
    THEN [raised |-> "AttributeError", db |-> db, row |-> NoRow]
    ELSE LET found == {i \in DOMAIN db.etl_step :
                          db.etl_step[i].name = step_name}
         IN IF Cardinality(found) > 1
            THEN [raised |-> "MultipleResultsFound", db |-> db, row |-> NoRow]
            ELSE IF found # {}
            THEN [raised |-> None, db |-> db,
                  row |-> db.etl_step[CHOOSE i \in found : TRUE]]
            ELSE IF ~({"phase_id", "name", "code", "phase", "description"}
                          \subseteq ETLStep_attrs)
            THEN [raised |-> "TypeError", db |-> db, row |-> NoRow]
            ELSE LET step == [id |-> Len(db.etl_step) + 1,
                              phase_id |-> phase.id, name |-> step_name,
                              code |-> step_code, description |-> None]
                 IN [raised |-> None,
                     db |-> [db EXCEPT !.etl_step = Append(@, step)],
                     row |-> step]

\* seed_etl_phases_and_steps(): the first pass of the loop calls
\* normalize_step_name, a name the module does not hold
seed_etl_phases_and_steps(db) ==
    IF EtlStepMembers = <<>>
    THEN [raised |-> None, db |-> db]
    ELSE IF "normalize_step_name" \notin etl_step_names
    THEN [raised |-> "NameError", db |-> db]
    ELSE [raised |-> None, db |-> db]

\* import db_target.models.meta.meta_seed
ImportMetaSeed ==
    /\ Len(seed_calls) < MaxSeedCalls
    /\ seed_calls' = Append(seed_calls, [op |-> "import", arg |-> <<>>,
                                         raised |-> import_meta_seed])
    /\ UNCHANGED seed_db
    /\ SeedFrame

\* from db_target.models.meta.meta_seed import seed_etl_phases_and_steps,
\* then seed_etl_phases_and_steps()
SeedEtlPhasesAndSteps ==
    /\ Len(seed_calls) < MaxSeedCalls
    /\ LET r == IF import_meta_seed # None
                THEN [raised |-> import_meta_seed, db |-> seed_db]
                ELSE seed_etl_phases_and_steps(seed_db)
       IN /\ seed_db' = r.db
          /\ seed_calls' = Append(seed_calls, [op |-> "seed", arg |-> <<>>,
                                               raised |-> r.raised])
    /\ SeedFrame

\* the body of add_phase, run with a phase name
AddPhase(phase_name) ==
    /\ Len(seed_calls) < MaxSeedCalls
    /\ LET r == add_phase(seed_db, phase_name)
       IN /\ seed_db' = r.db
          /\ seed_calls' = Append(seed_calls,
                                  [op |-> "add_phase", arg |-> phase_name,
                                   raised |-> r.raised])
    /\ SeedFrame

\* the body of add_step, run with a member of the enumeration and a phase
AddStep(step_name, step_code, phase) ==
    /\ Len(seed_calls) < MaxSeedCalls
    /\ LET r == add_step(seed_db, step_name, step_code, phase)
       IN /\ seed_db' = r.db
          /\ seed_calls' = Append(seed_calls,
                                  [op |-> "add_step", arg |-> step_code,
                                   raised |-> r.raised])
    /\ SeedFrame

\* empty tables, nothing called
InitSeed ==
    /\ seed_db = [etl_phase |-> <<>>, etl_step |-> <<>>]
    /\ seed_calls = <<>>

NextSeed ==
    \/ ImportMetaSeed
    \/ SeedEtlPhasesAndSteps
    \/ \E i \in DOMAIN EtlStepMembers :
          AddPhase(get_phase_from_step([kind |-> "enum",
                                        value |-> EtlStepMembers[i].value]))
    \/ \E i \in DOMAIN EtlStepMembers :
          AddStep(EtlStepMembers[i].name, EtlStepMembers[i].value, [id |-> 1])

(***************************************************************************)
(* Database descriptors and their connection strings (app_settings).       *)
(* A str is the sequence of its characters; an optional field is the empty *)
(* sequence for None and a sequence of one value otherwise.                *)
(***************************************************************************)
Optional(S) == {<<>>} \cup {<<x>> : x \in S}

\* a test for an optional int that asks only whether it is None
IsNotNone(opt) == opt # <<>>

\* bool(x) of an optional int: None and 0 are false
TruthyInt(opt) == opt # <<>> /\ opt[1] # 0

\* bool(x) of an optional str: None and "" are false
TruthyStr(opt) == opt # <<>> /\ opt[1] # <<>>

DigitChars == <<"0", "1", "2", "3", "4", "5", "6", "7", "8", "9">>

\* str(n) of an int that is not negative
RECURSIVE IntStr(_)
IntStr(n) ==
    IF n < 10 THEN <<DigitChars[n + 1]>>
    ELSE IntStr(n \div 10) \o <<DigitChars[(n % 10) + 1]>>

\* the pieces of a format string: literal text and {name} fields
Lit(text) == [kind |-> "lit", text |-> text, name |-> None]
Field(name) == [kind |-> "field", text |-> <<>>, name |-> name]

\* str.format(**kwargs): every {name} replaced by its keyword argument
RECURSIVE format(_, _)
format(template, kwargs) ==
    IF template = <<>> THEN <<>>
    ELSE (IF Head(template).kind = "lit" THEN Head(template).text
          ELSE kwargs[Head(template).name])
           \o format(Tail(template), kwargs)

ServerTail ==
    <<Field("credentials"), Lit(<<"@">>), Field("host"), Lit(<<":">>),
      Field("port"), Lit(<<"/">>), Field("database")>>

MssqlQuery ==
    <<Lit(<<"?", "d", "r", "i", "v", "e", "r", "=">>), Field("driver"),
      Lit(<<"&", "T", "r", "u", "s", "t", "S", "e", "r", "v", "e", "r",
          "C", "e", "r", "t", "i", "f", "i", "c", "a", "t", "e", "=", "y",
          "e", "s", "&", "E", "n", "c", "r", "y", "p", "t", "=", "n",
          "o">>)>>

\* CONNECTION_TEMPLATES
T_postgresql == <<Lit(<<"p", "o", "s", "t", "g", "r", "e", "s", "q",
    "l", "+", "p", "s", "y", "c", "o", "p", "g", ":", "/", "/">>)>> \o
    ServerTail
T_mysql == <<Lit(<<"m", "y", "s", "q", "l", "+", "m", "y", "s", "q",
    "l", "d", "b", ":", "/", "/">>)>> \o ServerTail
T_mysql_pymysql == <<Lit(<<"m", "y", "s", "q", "l", "+", "p", "y", "m",
    "y", "s", "q", "l", ":", "/", "/">>)>> \o ServerTail
T_mssql_port == <<Lit(<<"m", "s", "s", "q", "l", "+", "p", "y", "o",
    "d", "b", "c", ":", "/", "/">>)>> \o ServerTail \o MssqlQuery
T_mssql_no_port ==
    <<Lit(<<"m", "s", "s", "q", "l", "+", "p", "y", "o", "d", "b", "c",
        ":", "/", "/">>), Field("credentials"), Lit(<<"@">>), Field("host"),
      Lit(<<"/">>), Field("database")>> \o MssqlQuery
T_sqlite == <<Lit(<<"s", "q", "l", "i", "t", "e", ":", "/", "/", "/">>),
    Field("path_to_file")>>

\* CONNECTION_TEMPLATES.get(db_type.value) for a template that is a str
CONNECTION_TEMPLATES_get(value) ==
    CASE value = S_postgresql -> [found |-> TRUE, template |-> T_postgresql]
      [] value = S_mysql -> [found |-> TRUE, template |-> T_mysql]
      [] value = S_mysql_pymysql -> [found |-> TRUE, template |-> T_mysql_pymysql]
      [] value = S_sqlite -> [found |-> TRUE, template |-> T_sqlite]
      [] OTHER -> [found |-> FALSE, template |-> <<>>]

DefaultDriver ==
    <<"O", "D", "B", "C", "+", "D", "r", "i", "v", "e", "r", "+", "1",
        "7", "+", "f", "o", "r", "+", "S", "Q", "L", "+", "S", "e", "r",
        "v", "e", "r">>

\* DBCredentials.__str__
Credentials_str(c) == c.user \o <<":">> \o c.password

Hosts == {<<"h">>, <<"i">>}
Ports == {0, 5432}
Databases == {<<"d">>, <<"e">>}
Credentials == {[user |-> <<"u">>, password |-> <<"p">>],
                [user |-> <<"w">>, password |-> <<"q">>]}
Drivers == {<<>>, <<"F">>}

\* the descriptors: DbSettings(db_type, host, port, database, credentials, driver)
DbSettings ==
    [db_type : Range(SqlType), host : Hosts, port : Optional(Ports),
     database : Databases, credentials : Credentials,
     driver : Optional(Drivers)]

\* a connection_string that gives something else once it has been computed
connection_string_once(self) ==
    [raised |-> None,
     value |-> IF conn_calls # <<>> THEN <<>> ELSE self.database]

\* a connection_string that reads the host whatever the type
connection_string_host(self) ==
    [raised |-> None, value |-> self.host \o <<"/">> \o self.database]

\* DbSettings.connection_string
connection_string(self) ==
    IF self.db_type = S_sqlite
    THEN [raised |-> None,
          value |-> format(T_sqlite, [path_to_file |-> self.database])]
    ELSE IF self.db_type = S_mssql
    THEN IF TruthyInt(self.port)
         THEN [raised |-> None,
               value |-> format(T_mssql_port,
                           [credentials |-> Credentials_str(self.credentials),
                            host |-> self.host,
                            port |-> IF TruthyInt(self.port)
                                     THEN IntStr(self.port[1]) ELSE <<>>,
                            database |-> self.database,
                            driver |-> IF TruthyStr(self.driver)
                                       THEN self.driver[1] ELSE DefaultDriver])]
         ELSE [raised |-> None,
               value |-> format(T_mssql_no_port,
                           [credentials |-> Credentials_str(self.credentials),
                            host |-> self.host,
                            database |-> self.database,
                            driver |-> IF TruthyStr(self.driver)
                                       THEN self.driver[1] ELSE DefaultDriver])]
    ELSE LET template == CONNECTION_TEMPLATES_get(self.db_type)
         IN IF ~template.found
            THEN [raised |-> "ValueError", value |-> <<>>]
            ELSE [raised |-> None,
                  value |-> format(template.template,
                              [credentials |-> Credentials_str(self.credentials),
                               host |-> self.host,
                               port |-> IF TruthyInt(self.port)
                                        THEN IntStr(self.port[1]) ELSE <<>>,
                               database |-> self.database])]

NoDbSettings ==
    [db_type |-> PyNone, host |-> <<>>, port |-> <<>>, database |-> <<>>,
     credentials |-> [user |-> <<>>, password |-> <<>>], driver |-> <<>>]

\* DbSettings(...): a descriptor is constructed; the strings kept are those
\* computed from descriptors equal to it
NewDbSettings(d) ==
    /\ db_settings' = d
    /\ conn_calls' = IF d = db_settings THEN conn_calls ELSE <<>>
    /\ ConnFrame

\* db_settings.connection_string, the results kept one after the other with
\* the descriptor as it is after the access
GetConnectionString ==
    /\ db_settings # NoDbSettings
    /\ Len(conn_calls) < MaxConnCalls
    /\ LET r == connection_string(db_settings)
       IN conn_calls' = Append(conn_calls,
                               [settings |-> db_settings, raised |-> r.raised,
                                value |-> r.value])
    /\ UNCHANGED db_settings
    /\ ConnFrame

InitConnection ==
    /\ db_settings = NoDbSettings
    /\ conn_calls = <<>>

NextConnection ==
    \/ \E d \in DbSettings : NewDbSettings(d)
    \/ GetConnectionString

(***************************************************************************)
(* Queries and the query registry (db_sources/query_model.py).  A mapping  *)
(* is the list of its values in the mapping's own order: flattening reads  *)
(* the values only.                                                        *)
(***************************************************************************)
QUERIES_PATH == "db_sources/queries"

\* the file names a registry may give as path
QueryPaths == {"a.sql", "b.sql"}

\* the keyword arguments a leaf of the registry holds
QueryArgs == {[name |-> "qa", path |-> "a.sql", order |-> 1],
              [name |-> "qb", path |-> "b.sql", order |-> 1],
              [name |-> "qc", path |-> "a.sql", order |-> 0]}

NoQuery == [name |-> None, path |-> None, order |-> 0]

\* Query.full_path: QUERIES_PATH / self.path
full_path(q) == <<QUERIES_PATH, q.path>>

\* Query.__post_init__ without its test: the construction never fails
Query_post_init_unchecked(q, fs) == None

\* Query.__post_init__: raises when full_path does not exist
Query_post_init(q, fs) ==
    IF full_path(q) \notin fs THEN "FileNotFoundError" ELSE None

\* Query(**v): the fields are the keyword arguments; __post_init__ runs last
Query(v, fs) ==
    [raised |-> Query_post_init(v, fs), q |-> v]

\* sorted(...) that leaves the list as it is given
sorted_not(query_list) == query_list

\* one step of a sort that is not stable: q goes before the items of its order
InsertBeforeTies(items, q) ==
    LET n == Cardinality({i \in DOMAIN items : items[i].order < q.order})
    IN SubSeq(items, 1, n) \o <<q>> \o SubSeq(items, n + 1, Len(items))

\* one step of the stable sort: q goes behind every item whose order is not
\* greater than its own
InsertByOrder(items, q) ==
    LET n == Cardinality({i \in DOMAIN items : items[i].order <= q.order})
    IN SubSeq(items, 1, n) \o <<q>> \o SubSeq(items, n + 1, Len(items))

\* sorted(query_list, key=lambda q: q.order): ascending, stable
RECURSIVE sorted_by_order(_)
sorted_by_order(query_list) ==
    IF query_list = <<>> THEN <<>>
    ELSE InsertByOrder(
             sorted_by_order(SubSeq(query_list, 1, Len(query_list) - 1)),
             query_list[Len(query_list)])

\* a constructor that leaves out the queries of order 0
Queries_init_filtered(query_list) ==
    sorted_by_order(SelectSeq(query_list, LAMBDA q : q.order > 0))

\* Queries.__init__: self._items
Queries_init(query_list) == sorted_by_order(query_list)

\* Queries.__getitem__: tuple indexing, from 0, negative indices from the end
Queries_getitem(items, index) ==
    LET n == Len(items)
        at == IF index < 0 THEN index + n ELSE index
    IN IF at < 0 \/ at >= n
       THEN [raised |-> "IndexError", value |-> NoQuery]
       ELSE [raised |-> None, value |-> items[at + 1]]

\* Queries.__len__
Queries_len(items) == Len(items)

\* Queries.__iter__: the items, first to last
Queries_iter(items) == [i \in 1..Len(items) |-> items[i]]

\* the values of a mapping: a dict holding "path", another dict, anything else
LeafNode(v) == [kind |-> "leaf", v |-> v, items |-> <<>>]
MapNode(items) == [kind |-> "map", v |-> NoQuery, items |-> items]
ScalarNode == [kind |-> "scalar", v |-> NoQuery, items |-> <<>>]

\* the mappings that hold exactly n values, nested ones counted
RECURSIVE MappingsOfSize(_)
MappingsOfSize(n) ==
    IF n = 0 THEN {<<>>}
    ELSE UNION {
           {<<e>> \o rest :
               e \in (IF k = 1
                      THEN {LeafNode(v) : v \in QueryArgs} \cup {ScalarNode}
                      ELSE {MapNode(m) : m \in MappingsOfSize(k - 1)}),
               rest \in MappingsOfSize(n - k)} : k \in 1..n}

\* from definitions import PIPELINES: the pipelines the module body reads
PIPELINES == <<"dim_objects", "dim_columns", "fact_relationships">>

\* yaml.safe_load(registry.yaml): a mapping per pipeline, MaxNodes values in all
Registries ==
    UNION {
      {[p \in Range(PIPELINES) |->
           CASE p = PIPELINES[1] -> a [] p = PIPELINES[2] -> b [] OTHER -> c] :
          a \in MappingsOfSize(n[1]), b \in MappingsOfSize(n[2]),
          c \in MappingsOfSize(n[3])} :
      n \in {t \in [1..3 -> 0..MaxNodes] : t[1] + t[2] + t[3] <= MaxNodes}}

NoFlatten == [raised |-> None, queries |-> <<>>, built |-> <<>>]

\* _flatten_registry: the Query of every leaf, depth first in the mapping's
\* order; built lists the Query objects constructed, each with whether its
\* file was there at that moment
RECURSIVE _flatten_registry(_, _)
_flatten_registry(registry, fs) ==
    IF registry = <<>> THEN NoFlatten
    ELSE LET v == Head(registry)
             first ==
                 CASE v.kind = "leaf" ->
                        LET c == Query(v.v, fs)
                        IN IF c.raised # None
                           THEN [NoFlatten EXCEPT !.raised = c.raised]
                           ELSE [raised |-> None, queries |-> <<c.q>>,
                                 built |-> <<[q |-> c.q,
                                             existed |-> full_path(c.q) \in fs]>>]
                   [] v.kind = "map" -> _flatten_registry(v.items, fs)
                   [] OTHER -> NoFlatten
             rest == _flatten_registry(Tail(registry), fs)
         IN IF first.raised # None THEN first
            ELSE IF rest.raised # None
            THEN [raised |-> rest.raised, queries |-> <<>>,
                  built |-> first.built \o rest.built]
            ELSE [raised |-> None, queries |-> first.queries \o rest.queries,
                  built |-> first.built \o rest.built]

\* r.keys()[0]: a dict_keys object takes no subscript
dict_keys_getitem(r, index) == [raised |-> "TypeError", key |-> None]

\* queries_by_pipeline[key] = value
DictSet(d, key, value) ==
    [k \in DOMAIN d \cup {key} |-> IF k = key THEN value ELSE d[k]]

\* the loop of _import_queries_from_registry over [registry[p] for p in
\* PIPELINES]: the right-hand side is evaluated before the key
RECURSIVE ImportLoop(_, _, _, _)
ImportLoop(rs, queries_by_pipeline, built, fs) ==
    IF rs = <<>>
    THEN [raised |-> None, queries_by_pipeline |-> queries_by_pipeline,
          built |-> built]
    ELSE LET r == Head(rs)
             value == _flatten_registry(r, fs)
             key == dict_keys_getitem(r, 0)
         IN IF value.raised # None
            THEN [raised |-> value.raised, queries_by_pipeline |-> EmptyDict,
                  built |-> built \o value.built]
            ELSE IF key.raised # None
            THEN [raised |-> key.raised, queries_by_pipeline |-> EmptyDict,
                  built |-> built \o value.built]
            ELSE ImportLoop(Tail(rs),
                            DictSet(queries_by_pipeline, key.key, value.queries),
                            built \o value.built, fs)

_import_queries_from_registry(registry, fs) ==
    ImportLoop([i \in DOMAIN PIPELINES |-> registry[PIPELINES[i]]],
               EmptyDict, <<>>, fs)

\* the module body after the import: DIM_OBJECTS, DIM_COLUMNS,
\* FACT_RELATIONSHIPS, each Queries(_queries_by_pipeline[name])
ModuleCollections(imp) ==
    IF imp.raised # None
    THEN [raised |-> imp.raised, collections |-> EmptyDict]
    ELSE IF \E i \in DOMAIN PIPELINES :
                PIPELINES[i] \notin DOMAIN imp.queries_by_pipeline
    THEN [raised |-> "KeyError", collections |-> EmptyDict]
    ELSE [raised |-> None,
          collections |-> [p \in Range(PIPELINES) |->
                              Queries_init(imp.queries_by_pipeline[p])]]

NoQueryCall ==
    [op |-> None, pipeline |-> None, files_seen |-> {}, raised |-> None,
     queries |-> <<>>, built |-> <<>>, queries_by_pipeline |-> EmptyDict,
     collections |-> EmptyDict]

\* import db_sources.query_model: the module body, lines 94 to 99
ImportQueryModel ==
    /\ LET imp == _import_queries_from_registry(registry_yaml, files)
           body == ModuleCollections(imp)
       IN query_call' = [NoQueryCall EXCEPT
                            !.op = "import", !.files_seen = files,
                            !.raised = body.raised, !.built = imp.built,
                            !.queries_by_pipeline = imp.queries_by_pipeline,
                            !.collections = body.collections]
    /\ UNCHANGED <<registry_yaml, files>>
    /\ RegFrame

\* _flatten_registry(registry[p]) called on one pipeline's mapping
FlattenRegistry(p) ==
    /\ LET f == _flatten_registry(registry_yaml[p], files)
       IN query_call' = [NoQueryCall EXCEPT
                            !.op = "flatten", !.pipeline = p,
                            !.files_seen = files, !.raised = f.raised,
                            !.queries = f.queries, !.built = f.built]
    /\ UNCHANGED <<registry_yaml, files>>
    /\ RegFrame

\* Queries(_flatten_registry(registry[p])): the collection of one pipeline
QueriesOfPipeline(p) ==
    /\ LET f == _flatten_registry(registry_yaml[p], files)
       IN query_call' = [NoQueryCall EXCEPT
                            !.op = "queries", !.pipeline = p,
                            !.files_seen = files, !.raised = f.raised,
                            !.queries = f.queries, !.built = f.built,
                            !.collections =
                                IF f.raised # None THEN EmptyDict
                                ELSE [k \in {p} |-> Queries_init(f.queries)]]
    /\ UNCHANGED <<registry_yaml, files>>
    /\ RegFrame

\* a query file is written under QUERIES_PATH, or deleted from it
CreateFile(path) ==
    /\ <<QUERIES_PATH, path>> \notin files
    /\ files' = files \cup {<<QUERIES_PATH, path>>}
    /\ UNCHANGED <<registry_yaml, query_call>>
    /\ RegFrame

RemoveFile(path) ==
    /\ <<QUERIES_PATH, path>> \in files
    /\ files' = files \ {<<QUERIES_PATH, path>>}
    /\ UNCHANGED <<registry_yaml, query_call>>
    /\ RegFrame

EmptyRegistry == [p \in Range(PIPELINES) |-> <<>>]

InitRegistryWith(registry, fs) ==
    /\ registry_yaml = registry
    /\ files = fs
    /\ query_call = NoQueryCall

InitNoRegistry == InitRegistryWith(EmptyRegistry, {})

NextRegistry ==
    \/ ImportQueryModel
    \/ \E p \in Range(PIPELINES) : FlattenRegistry(p)
    \/ \E p \in Range(PIPELINES) : QueriesOfPipeline(p)
    \/ \E path \in QueryPaths : CreateFile(path)
    \/ \E path \in QueryPaths : RemoveFile(path)

(***************************************************************************)
(* The text of a query file, read through Query.sql_text.                  *)
(***************************************************************************)
\* what a query file may hold
Texts == {"select 1", "select 2"}

QueryFiles == {<<QUERIES_PATH, path>> : path \in QueryPaths}

TextFrame == UNCHANGED <<auditVars, guidVars, dialectVars, defVars, def_call,
                         ctxVars, colVars, connVars, registry_yaml, query_call,
                         derive_call, stepVars, seedVars>>

\* Path.read_text(): the text of the file, FileNotFoundError when it is gone
read_text(path, fs, txt) ==
    IF path \notin fs
    THEN [raised |-> "FileNotFoundError", text |-> None]
    ELSE [raised |-> None, text |-> txt[path]]

\* a sql_text that keeps the text of its first read
sql_text_cached(q, fs, txt) ==
    IF sql_reads # <<>> /\ sql_reads[1].raised = None
    THEN sql_reads[1]
    ELSE read_text(full_path(q), fs, txt)

\* Query.sql_text: self.full_path.read_text()
sql_text(q, fs, txt) == read_text(full_path(q), fs, txt)

\* Query(**v): the object exists when __post_init__ has not raised
NewQuery(v) ==
    /\ LET c == Query(v, files)
       IN /\ query_obj' = IF c.raised = None THEN c.q ELSE query_obj
          /\ sql_reads' = IF c.raised = None THEN <<>> ELSE sql_reads
    /\ UNCHANGED <<files, file_text>>
    /\ TextFrame

\* query.sql_text, the results kept by the caller one after the other
ReadSqlText ==
    /\ query_obj # NoQuery
    /\ Len(sql_reads) < MaxReads
    /\ sql_reads' = Append(sql_reads, sql_text(query_obj, files, file_text))
    /\ UNCHANGED <<files, file_text, query_obj>>
    /\ TextFrame

\* a query file is written: created, or its text replaced
WriteFile(path, text) ==
    /\ files' = files \cup {<<QUERIES_PATH, path>>}
    /\ file_text' = [file_text EXCEPT ![<<QUERIES_PATH, path>>] = text]
    /\ UNCHANGED <<query_obj, sql_reads>>
    /\ TextFrame

InitSqlText ==
    /\ file_text = [p \in QueryFiles |-> None]
    /\ query_obj = NoQuery
    /\ sql_reads = <<>>

NextSqlText ==
    \/ \E v \in QueryArgs : NewQuery(v)
    \/ ReadSqlText
    \/ \E path \in QueryPaths, text \in Texts : WriteFile(path, text)
    \/ \E path \in QueryPaths : RemoveFile(path)

(***************************************************************************)
(* A Queries collection built from a list of Query objects.                *)
(***************************************************************************)
NoQueries == [built |-> FALSE, query_list |-> <<>>, items |-> <<>>]

NoQueriesCall ==
    [op |-> None, index |-> 0, raised |-> None, value |-> NoQuery,
     length |-> 0, visited |-> <<>>]

\* Queries(query_list)
NewQueries(query_list) ==
    /\ queries' = [built |-> TRUE, query_list |-> query_list,
                   items |-> Queries_init(query_list)]
    /\ queries_call' = NoQueriesCall
    /\ ColFrame

\* queries[index]
GetItem(index) ==
    /\ queries.built
    /\ LET r == Queries_getitem(queries.items, index)
       IN queries_call' = [NoQueriesCall EXCEPT
                              !.op = "__getitem__", !.index = index,
                              !.raised = r.raised, !.value = r.value]
    /\ UNCHANGED queries
    /\ ColFrame

\* len(queries)
GetLen ==
    /\ queries.built
    /\ queries_call' = [NoQueriesCall EXCEPT
                           !.op = "__len__",
                           !.length = Queries_len(queries.items)]
    /\ UNCHANGED queries
    /\ ColFrame

\* list(queries)
Iterate ==
    /\ queries.built
    /\ queries_call' = [NoQueriesCall EXCEPT
                           !.op = "__iter__",
                           !.visited = Queries_iter(queries.items)]
    /\ UNCHANGED queries
    /\ ColFrame

InitQueries ==
    /\ queries = NoQueries
    /\ queries_call = NoQueriesCall

NextQueries ==
    \/ \E query_list \in SeqsUpTo(QueryArgs, MaxQueries) : NewQueries(query_list)
    \/ \E index \in (0 - MaxQueries - 1)..MaxQueries : GetItem(index)
    \/ GetLen
    \/ Iterate

(***************************************************************************)
(* Claims about the query registry and the Queries collection.             *)
(***************************************************************************)
\* the keyword arguments of the leaves of a mapping, depth first
RECURSIVE LeavesOf(_)
LeavesOf(m) ==
    IF m = <<>> THEN <<>>
    ELSE LET v == Head(m)
         IN (CASE v.kind = "leaf" -> <<v.v>>
               [] v.kind = "map" -> LeavesOf(v.items)
               [] OTHER -> <<>>) \o LeavesOf(Tail(m))

\* some leaf of the mapping names a file that is not in fs
MissingLeaf(m, fs) ==
    \E i \in DOMAIN LeavesOf(m) : full_path(LeavesOf(m)[i]) \notin fs

\* C8: loading a registry whose query files are all there gives a mapping
\* with exactly one entry per requested pipeline name, keyed by that name,
\* holding the leaves found under that pipeline's subtree.
C8_LoadKeyedByPipeline ==
    (/\ query_call.op = "import"
     /\ \A p \in Range(PIPELINES) :
            ~MissingLeaf(registry_yaml[p], query_call.files_seen))
    => /\ query_call.raised = None
       /\ DOMAIN query_call.queries_by_pipeline = Range(PIPELINES)
       /\ \A p \in Range(PIPELINES) :
              query_call.queries_by_pipeline[p] = LeavesOf(registry_yaml[p])

\* C9: every Query object was built while its file existed; flattening a
\* mapping fails with FileNotFoundError exactly when one of its leaves names
\* a missing file, and what it returns otherwise names existing files only;
\* an import over a registry with a missing leaf fails and builds no
\* Queries collection.
C9_QueryFilesExistAtLoad ==
    /\ \A i \in DOMAIN query_call.built : query_call.built[i].existed
    /\ query_call.op = "flatten" =>
           /\ (query_call.raised = "FileNotFoundError")
                <=> MissingLeaf(registry_yaml[query_call.pipeline],
                                query_call.files_seen)
           /\ query_call.raised = None =>
                  \A i \in DOMAIN query_call.queries :
                      full_path(query_call.queries[i]) \in query_call.files_seen
    /\ (/\ query_call.op = "import"
        /\ \E p \in Range(PIPELINES) :
               MissingLeaf(registry_yaml[p], query_call.files_seen))
       => /\ query_call.raised # None
          /\ query_call.collections = EmptyDict

\* a flatten that built a Query and then met a leaf whose file is missing
C9_Witness ==
    /\ query_call.op = "flatten"
    /\ query_call.raised = "FileNotFoundError"
    /\ query_call.built # <<>>

\* the entries of a list that have the given order, as they follow each other
RECURSIVE WithOrder(_, _)
WithOrder(items, o) ==
    IF items = <<>> THEN <<>>
    ELSE (IF Head(items).order = o THEN <<Head(items)>> ELSE <<>>)
           \o WithOrder(Tail(items), o)

\* C11: a flatten that succeeds returns the leaves depth first, each mapping
\* in its own order, and the Queries built from them keeps the entries of
\* equal order in the sequence in which the flatten found them.
C11_TiesKeepDiscoveryOrder ==
    (query_call.op = "queries" /\ query_call.raised = None) =>
        LET items == query_call.collections[query_call.pipeline]
        IN /\ query_call.queries = LeavesOf(registry_yaml[query_call.pipeline])
           /\ \A q \in QueryArgs :
                  WithOrder(items, q.order)
                    = WithOrder(query_call.queries, q.order)

\* two different leaves of equal order, the first inside a nested mapping
C11_Witness ==
    /\ query_call.op = "queries"
    /\ query_call.raised = None
    /\ Len(query_call.queries) = 2
    /\ query_call.queries[1] # query_call.queries[2]
    /\ query_call.queries[1].order = query_call.queries[2].order
    /\ Head(registry_yaml[query_call.pipeline]).kind = "map"

\* C12: every access of sql_text returns the text the file holds at that
\* access, whatever earlier accesses returned; with the file gone the access
\* raises, and the Query, the registry and the files are left as they were.
C12_SqlTextReadEveryAccess ==
    [][Len(sql_reads') = Len(sql_reads) + 1 =>
          LET r == sql_reads'[Len(sql_reads')]
          IN /\ query_obj' = query_obj
             /\ registry_yaml' = registry_yaml
             /\ files' = files
             /\ file_text' = file_text
             /\ IF full_path(query_obj) \in files
                THEN /\ r.raised = None
                     /\ r.text = file_text[full_path(query_obj)]
                ELSE r.raised = "FileNotFoundError"]_vars

\* two accesses of one Query with the file rewritten in between, and then
\* removed
C12_Witness ==
    /\ Len(sql_reads) = 2
    /\ sql_reads[1].raised = None
    /\ sql_reads[2].raised = None
    /\ sql_reads[1].text # sql_reads[2].text
    /\ full_path(query_obj) \notin files

\* the lists that hold the entries of query_list in another arrangement
Arrangements(query_list) ==
    {[i \in DOMAIN query_list |-> query_list[f[i]]] :
        f \in {g \in [DOMAIN query_list -> DOMAIN query_list] :
                  \A i, j \in DOMAIN query_list : i # j => g[i] # g[j]}}

OrdersOf(items) == [i \in DOMAIN items |-> items[i].order]

\* C10: iterating a Queries collection visits the entries of its list in
\* non-decreasing order, with the same sequence of orders for every
\* arrangement of the list, and queries[i] is the i-th entry visited.
C10_QueriesSortedByOrder ==
    queries.built =>
        LET visited == Queries_iter(queries.items)
        IN /\ \A i, j \in DOMAIN visited :
                  i <= j => visited[i].order <= visited[j].order
           /\ visited \in Arrangements(queries.query_list)
           /\ \A l \in Arrangements(queries.query_list) :
                  OrdersOf(Queries_iter(Queries_init(l))) = OrdersOf(visited)
           /\ queries_call.op = "__iter__" => queries_call.visited = visited
           /\ (/\ queries_call.op = "__getitem__"
               /\ queries_call.index \in 0..(Len(visited) - 1))
              => /\ queries_call.raised = None
                 /\ queries_call.value = visited[queries_call.index + 1]

\* a list given out of order, and an entry read back by its index
C10_Witness ==
    /\ queries.built
    /\ queries.query_list # queries.items
    /\ queries_call.op = "__getitem__"
    /\ queries_call.index = 1
    /\ queries_call.raised = None

(***************************************************************************)
(* Claims about the connection strings.                                    *)
(***************************************************************************)
ServerEngines == {S_postgresql, S_mysql, S_mysql_pymysql}

\* the scheme a template starts with, up to and including "://"
SchemeOf(db_type) ==
    CASE db_type = S_postgresql -> Head(T_postgresql).text
      [] db_type = S_mysql -> Head(T_mysql).text
      [] db_type = S_mysql_pymysql -> Head(T_mysql_pymysql).text
      [] db_type = S_mssql -> Head(T_mssql_port).text
      [] OTHER -> Head(T_sqlite).text

\* credentials@host/database, or credentials@host:port/database
HostPart(d, with_port) ==
    d.credentials.user \o <<":">> \o d.credentials.password \o <<"@">>
      \o d.host
      \o (IF with_port THEN <<":">> \o IntStr(d.port[1]) ELSE <<>>)
      \o <<"/">> \o d.database

\* C13: the connection string of a postgresql, mysql or mysql+pymysql
\* descriptor is scheme credentials@host/database when the port is absent
\* and scheme credentials@host:port/database when it is present.
C13_AbsentPortOmitted ==
    \A i \in DOMAIN conn_calls :
        LET d == conn_calls[i].settings
        IN d.db_type \in ServerEngines =>
               /\ conn_calls[i].raised = None
               /\ conn_calls[i].value
                    = SchemeOf(d.db_type) \o HostPart(d, d.port # <<>>)

\* ?driver=...&TrustServerCertificate=yes&Encrypt=no
DriverPart(driver) == MssqlQuery[1].text \o driver \o MssqlQuery[3].text

\* C14 as stated: an mssql descriptor takes the template with the port
\* exactly when its port is not None, and its own driver exactly when its
\* driver is not None.
C14_TemplateByPortPresent ==
    \A i \in DOMAIN conn_calls :
        LET d == conn_calls[i].settings
        IN d.db_type = S_mssql =>
               conn_calls[i].value
                 = SchemeOf(d.db_type) \o HostPart(d, d.port # <<>>)
                     \o DriverPart(IF d.driver # <<>> THEN d.driver[1]
                                   ELSE DefaultDriver)

\* C14: an mssql descriptor takes the template with the port exactly when
\* its port is neither None nor 0, the template without it otherwise; the
\* driver is the descriptor's when that is a non-empty string, the default
\* driver literal otherwise.
C14_TemplateByPortTruth ==
    \A i \in DOMAIN conn_calls :
        LET d == conn_calls[i].settings
        IN d.db_type = S_mssql =>
               /\ conn_calls[i].raised = None
               /\ conn_calls[i].value
                    = SchemeOf(d.db_type)
                        \o HostPart(d, d.port # <<>> /\ d.port # <<0>>)
                        \o DriverPart(IF d.driver # <<>> /\ d.driver # <<<<>>>>
                                      THEN d.driver[1] ELSE DefaultDriver)

\* an mssql string computed with a port, and its own driver
C14_Witness ==
    \E i \in DOMAIN conn_calls :
        /\ conn_calls[i].settings.db_type = S_mssql
        /\ conn_calls[i].settings.port = <<5432>>
        /\ conn_calls[i].settings.driver = <<<<"F">>>>
        /\ conn_calls[i].raised = None

C16_SqliteOnlyDatabase ==
    \A i \in DOMAIN conn_calls :
        LET d == conn_calls[i].settings
        IN d.db_type = S_sqlite =>
               /\ conn_calls[i].raised = None
               /\ conn_calls[i].value = SchemeOf(d.db_type) \o d.database
               /\ \A e \in DbSettings :
                      (e.db_type = S_sqlite /\ e.database = d.database)
                      => connection_string(e).value = conn_calls[i].value

\* the string of a sqlite descriptor that carries a port and a driver
C16_Witness ==
    \E i \in DOMAIN conn_calls :
        /\ conn_calls[i].settings.db_type = S_sqlite
        /\ conn_calls[i].settings.port # <<>>
        /\ conn_calls[i].settings.driver # <<>>
        /\ conn_calls[i].value # <<>>

(***************************************************************************)
(* Claims about the definition registry and the logging context.           *)
(***************************************************************************)
\* the steps of the registry that update_step was last called with
UpdatedSteps ==
    {i \in DOMAIN STEPS :
        /\ ctx_call.op = "update_step"
        /\ ctx_call.etl_step.kind = "str"
        /\ ctx_call.etl_step.value = STEPS[i].code
        /\ STEPS[i].phase_id \in DOMAIN PHASE_BY_ID}

\* C4 as claimed: after update_step(step_def) the context's phase is the key of
\* the phase that owns step_def in the registry, and its step is step_def.code.
C4_PhaseIsRegistryPhase ==
    \A i \in UpdatedSteps :
        /\ log_context.etl_phase = PHASE_BY_ID[STEPS[i].phase_id].key
        /\ log_context.etl_step = STEPS[i].code

\* p is s up to its first "." (all of s when s has none)
IsFirstSegment(p, s) ==
    /\ Len(p) <= Len(s)
    /\ \A i \in DOMAIN p : p[i] = s[i] /\ p[i] # "."
    /\ Len(p) < Len(s) => s[Len(p) + 1] = "."

\* C4 as amended: after update_step(s) the context's step is the string s and
\* its phase is the part of s before the first "."; for a step of the registry
\* passed by its code that is the owning phase's key exactly when the key is
\* the code's first "."-separated segment.
C4_PhaseIsFirstSegmentOfStep ==
    ctx_call.op = "update_step" =>
        /\ log_context.etl_step = ctx_call.etl_step.value
        /\ IsFirstSegment(log_context.etl_phase, log_context.etl_step)
        /\ \A i \in UpdatedSteps :
              LET key == PHASE_BY_ID[STEPS[i].phase_id].key
              IN (log_context.etl_phase = key)
                     <=> IsFirstSegment(key, STEPS[i].code)

\* update_step was called with the code of a registry step whose code starts
\* with the key of its phase
C4_Witness ==
    /\ def_loaded
    /\ \E i \in UpdatedSteps :
          /\ log_context.etl_phase = PHASE_BY_ID[STEPS[i].phase_id].key
          /\ log_context.etl_step = STEPS[i].code
          /\ Len(log_context.etl_phase) < Len(log_context.etl_step)

\* C5: no registry holding a step whose phase_id matches no phase is produced.
C5_NoDanglingPhaseId ==
    def_loaded =>
        \A i \in DOMAIN STEPS :
            \E j \in DOMAIN PHASES : PHASES[j].id = STEPS[i].phase_id

\* C6: in every loaded registry the by-id and by-key mappings have as many
\* entries as the list they were built from.
C6_MappingsCoverLists ==
    def_loaded =>
        /\ Cardinality(DOMAIN PHASE_BY_ID) = Len(PHASES)
        /\ Cardinality(DOMAIN PHASE_BY_KEY) = Len(PHASES)
        /\ Cardinality(DOMAIN STEP_BY_ID) = Len(STEPS)
        /\ Cardinality(DOMAIN STEP_BY_KEY) = Len(STEPS)

\* the positions in STEPS of the steps of the phase that phase_key resolves to
PositionsOfPhase(phase_key) ==
    {i \in DOMAIN STEPS : STEPS[i].phase_id = PHASE_BY_KEY[phase_key].id}

\* C7: for a phase key of the registry, iter_steps_in_phase yields exactly the
\* steps whose phase_id is the id of that key's phase, each once, in the order
\* of STEPS: its k-th step is the step at the k-th smallest such position.
C7_StepsInDeclarationOrder ==
    (def_call.op = "iter_steps_in_phase"
         /\ def_call.phase_key \in DOMAIN PHASE_BY_KEY) =>
        LET pos == PositionsOfPhase(def_call.phase_key)
        IN /\ def_call.raised = None
           /\ Len(def_call.steps) = Cardinality(pos)
           /\ \A k \in DOMAIN def_call.steps :
                 \E i \in pos :
                     /\ Cardinality({j \in pos : j < i}) = k - 1
                     /\ def_call.steps[k] = STEPS[i]

\* a phase with two different steps, declared around a step of another phase
C7_Witness ==
    /\ def_call.op = "iter_steps_in_phase"
    /\ def_call.raised = None
    /\ Len(STEPS) = 3
    /\ def_call.steps = <<STEPS[1], STEPS[3]>>
    /\ STEPS[1] # STEPS[3]


\* C21: once the definitions are loaded the context holds the placeholder
\* pair or the code of a step of the registry together with the key of the
\* phase that owns it: an update with any other step changes nothing.
C21_CursorHoldsKnownStep ==
    def_loaded =>
        \/ /\ log_context.etl_step = Placeholder
           /\ log_context.etl_phase = Placeholder
        \/ \E i \in DOMAIN STEPS :
               /\ log_context.etl_step = STEPS[i].code
               /\ STEPS[i].phase_id \in DOMAIN PHASE_BY_ID
               /\ log_context.etl_phase = PHASE_BY_ID[STEPS[i].phase_id].key

C24_UpdatesTouchOwnFields ==
    [][/\ (ctx_call' # ctx_call /\ ctx_call'.op = "update_source_db_name") =>
              /\ log_context'.source_db_name = ctx_call'.source_db_name
              /\ log_context'.etl_run_guid = log_context.etl_run_guid
              /\ log_context'.etl_phase = log_context.etl_phase
              /\ log_context'.etl_step = log_context.etl_step
       /\ (ctx_call' # ctx_call /\ ctx_call'.op = "update_step") =>
              /\ log_context'.source_db_name = log_context.source_db_name
              /\ log_context'.etl_run_guid = log_context.etl_run_guid]_vars

\* a context with a name and a run guid of its own, after an update of each
\* kind
C24_Witness ==
    /\ ctx_call.op = "update_source_db_name"
    /\ log_context.etl_run_guid # Placeholder
    /\ log_context.etl_step # Placeholder

(***************************************************************************)
(* Claims about the audit rows and the run guid.                           *)
(***************************************************************************)
TerminalStatus == ETLStatusCodeType \ {"STARTED"}

\* C1: a run audit's (and a step audit's) status starts at STARTED and moves
\* once only: a row whose status is terminal keeps that status in every step.
C1_TerminalStatusIsFinal ==
    [][/\ \A i \in DOMAIN run_audits :
             run_audits[i].status_code \in TerminalStatus
                 => run_audits'[i].status_code = run_audits[i].status_code
       /\ \A i \in DOMAIN step_audits :
             step_audits[i].status_code \in TerminalStatus
                 => step_audits'[i].status_code = step_audits[i].status_code]_vars

\* C2: any two run guid allocations of a process give different guids.
C2_RunGuidsDistinct ==
    \A i, j \in DOMAIN log_settings :
        i # j => log_settings[i].run_guid # log_settings[j].run_guid

\* the sum of rows_read over the steps of run r, NULL counting as nothing
RECURSIVE SumRowsRead(_, _)
SumRowsRead(steps, r) ==
    IF steps = <<>> THEN 0
    ELSE (IF Head(steps).etl_run_id = r /\ Head(steps).rows_read # <<>>
          THEN Head(steps).rows_read[1] ELSE 0)
           + SumRowsRead(Tail(steps), r)

\* C19: a run that has been completed, and has steps that read rows, holds
\* in total_rows_read the sum of rows_read over its step audits.
C19_TotalsAreSums ==
    \A i \in DOMAIN run_audits :
        (/\ run_audits[i].status_code \in TerminalStatus
         /\ \E k \in DOMAIN step_audits :
                /\ step_audits[k].etl_run_id = i
                /\ step_audits[k].rows_read # <<>>)
        => run_audits[i].total_rows_read = <<SumRowsRead(step_audits, i)>>

\* C20: a call whose work returns gives back that result; a call whose work
\* raises has logged the failure, raised the same exception, and left a
\* step audit with the status FAILED and an error message.
C20_FailureRecordedAndReraised ==
    \A i \in DOMAIN wrap_calls :
        LET c == wrap_calls[i]
        IN /\ c.work.kind = "return" =>
                  c.raised = None /\ c.result = c.work.value
           /\ (c.work.kind = "raise" /\ c.work.exc \in Exceptions) =>
                  /\ c.raised = c.work.exc
                  /\ \E k \in DOMAIN step_log :
                         /\ step_log[k].call = i
                         /\ step_log[k].level = "ERROR"
                         /\ step_log[k].exception = c.work.exc
                  /\ \E k \in DOMAIN step_audits :
                         /\ step_audits[k].status_code = "FAILED"
                         /\ step_audits[k].error_message # None

\* the number of times q occurs in the sequence s
Occurrences(s, q) == Cardinality({i \in DOMAIN s : s[i] = q})

\* the collection holds as many entries as its list, each as often
SameContent ==
    queries.built =>
        /\ Len(queries.items) = Len(queries.query_list)
        /\ \A q \in QueryArgs :
               Occurrences(queries.items, q) = Occurrences(queries.query_list, q)
        /\ queries_call.op = "__len__" =>
               queries_call.length = Len(queries.query_list)
        /\ queries_call.op = "__iter__" =>
               Len(queries_call.visited) = Len(queries.query_list)

\* C27: a Queries collection holds the entries of the list it was built
\* from, as many as were given and each as often as it was given, and
\* reading it by index, by length or by iteration leaves it as it was.
C27_QueriesKeepContent ==
    /\ []SameContent
    /\ [][queries_call'.op # None => UNCHANGED queries]_vars

\* a collection built from a list that names one query twice, whose length
\* was read
C27_Witness ==
    /\ queries.built
    /\ \E i, j \in DOMAIN queries.query_list :
           i # j /\ queries.query_list[i] = queries.query_list[j]
    /\ queries_call.op = "__len__"
    /\ queries_call.length = Len(queries.query_list)
    /\ queries_call.length >= 2

(***************************************************************************)
(* Claims about the bound fields and the lines of a wrapped call.          *)
(***************************************************************************)
ContextKeys == {"source_db_name", "etl_run_guid", "etl_phase", "etl_step"}

\* the lines the call numbered i emitted, in the order they were emitted
LinesOf(i) == SelectSeq(step_log, LAMBDA r : r.call = i)

\* C23: after any creation and updates of the context, to_bind_kwargs gives
\* a mapping with all four keys, each the last value set or "-"; every log
\* record carries the six default fields, and the four fields bound from
\* the context keep the bound value.
C23_BoundFieldsKept ==
    /\ LET b == to_bind_kwargs(log_context)
       IN /\ DOMAIN b = ContextKeys
          /\ ctx_call.op = "update_source_db_name" =>
                 b.source_db_name = ctx_call.source_db_name
          /\ ctx_call.op = "update_step" =>
                 b.etl_step = step_to_str(ctx_call.etl_step)
          /\ ctx_call.op = "__init__" =>
                 /\ b.etl_run_guid = IF ctx_call.etl_run_guid = PyNone
                                     THEN Placeholder
                                     ELSE ctx_call.etl_run_guid
                 /\ b.source_db_name = Placeholder
                 /\ b.etl_step = Placeholder
                 /\ b.etl_phase = Placeholder
    /\ \A i \in DOMAIN wrap_calls :
           /\ DOMAIN wrap_calls[i].bound = ContextKeys
           /\ \A f \in ContextKeys :
                  wrap_calls[i].bound[f] = wrap_calls[i].context[f]
    /\ \A k \in DOMAIN step_log :
           /\ DefaultExtraKeys \subseteq DOMAIN step_log[k].extra
           /\ \A f \in ContextKeys :
                  step_log[k].extra[f] = wrap_calls[step_log[k].call].context[f]

\* a line was emitted under a context with a name, a guid and a step set:
\* the line carries them, and "-" for the fields nobody bound
C23_Witness ==
    \E k \in DOMAIN step_log :
        /\ wrap_calls[step_log[k].call].context.source_db_name \in SourceDbNames
        /\ wrap_calls[step_log[k].call].context.etl_run_guid \in RunGuidStrings
        /\ wrap_calls[step_log[k].call].context.etl_step # Placeholder
        /\ step_log[k].extra.source_db_name \in SourceDbNames
        /\ step_log[k].extra.app_name = Placeholder

\* a call that ran to a return or to an Exception
Handled(c) == c.work.kind = "return" \/ c.work.exc \in Exceptions

\* every line of the call numbered i carries the context the call started in
CarriesStartContext(i) ==
    \A k \in DOMAIN LinesOf(i) :
        \A f \in ContextKeys : LinesOf(i)[k].extra[f] = wrap_calls[i].context[f]

\* C26 as stated: every call emits the starting line, then exactly one of
\* the completed and failed lines, all with the context of the call's start.
C26_OneEndLineAlways ==
    \A i \in DOMAIN wrap_calls :
        /\ Len(LinesOf(i)) = 2
        /\ LinesOf(i)[1].message = "Starting ETL step"
        /\ LinesOf(i)[2].message \in {"Completed ETL step", "ETL step failed"}
        /\ CarriesStartContext(i)

\* C26: every call emits the starting line first; a call that returns emits
\* the completed line after it and nothing else, a call that raises an
\* Exception the failed line and nothing else, a call that raises another
\* BaseException no second line; all lines carry the context the call
\* started in, whatever the body does to the context.
C26_OneEndLineWhenHandled ==
    \A i \in DOMAIN wrap_calls :
        /\ Len(LinesOf(i)) >= 1
        /\ LinesOf(i)[1].message = "Starting ETL step"
        /\ IF Handled(wrap_calls[i])
           THEN /\ Len(LinesOf(i)) = 2
                /\ LinesOf(i)[2].message =
                       IF wrap_calls[i].work.kind = "return"
                       THEN "Completed ETL step" ELSE "ETL step failed"
           ELSE Len(LinesOf(i)) = 1
        /\ CarriesStartContext(i)

\* a call made after the context was moved to a step, whose body moved the
\* context on: its two lines carry the step of the start, not the new one
C26_Witness ==
    \E i \in DOMAIN wrap_calls :
        /\ wrap_calls[i].work.kind = "return"
        /\ wrap_calls[i].during # NoStep
        /\ wrap_calls[i].context.etl_step # Placeholder
        /\ log_context.etl_step # wrap_calls[i].context.etl_step
        /\ Len(LinesOf(i)) = 2
        /\ LinesOf(i)[2].extra.etl_step = wrap_calls[i].context.etl_step

(***************************************************************************)
(* Claims about seeding the phase and step tables.                         *)
(***************************************************************************)
\* the phase rows named p, the step rows with the code c
PhaseRows(p) == {i \in DOMAIN seed_db.etl_phase : seed_db.etl_phase[i].name = p}

StepRows(c) == {i \in DOMAIN seed_db.etl_step : seed_db.etl_step[i].code = c}

\* C25: once seed_etl_phases_and_steps has run, any number of times, it has
\* not raised, and the tables hold one phase row for each phase of the
\* enumeration and one step row for each member, attached to the phase
\* named by the first segment of the member's value.
C25_SeedingIdempotent ==
    (\E k \in DOMAIN seed_calls : seed_calls[k].op = "seed") =>
        /\ \A k \in DOMAIN seed_calls :
               seed_calls[k].op = "seed" => seed_calls[k].raised = None
        /\ \A i \in DOMAIN EtlStepMembers :
               LET phase_name == SplitFirst(EtlStepMembers[i].value, ".")
               IN /\ Cardinality(PhaseRows(phase_name)) = 1
                  /\ Cardinality(StepRows(EtlStepMembers[i].value)) = 1
                  /\ \A s \in StepRows(EtlStepMembers[i].value) :
                         \A p \in PhaseRows(phase_name) :
                             seed_db.etl_step[s].phase_id = seed_db.etl_phase[p].id

(***************************************************************************)
(* Specifications.                                                         *)
(***************************************************************************)
\* the state of a fresh process: no rows, no guid drawn, nothing constructed
Init ==
    /\ InitAudit
    /\ InitGuid
    /\ InitDialect
    /\ InitNoDefs
    /\ InitContext
    /\ InitNoRegistry
    /\ InitQueries
    /\ InitSqlText
    /\ InitConnection
    /\ InitDerive
    /\ InitStep
    /\ InitSeed

SpecAudit == Init /\ [][NextAudit]_vars

SpecGuid == Init /\ [][NextGuid]_vars

\* the dialect registry under any installed sqlglot
InitSqlglot ==
    /\ InitAudit
    /\ InitGuid
    /\ sqlglot_classes \in SUBSET DialectNames
    /\ dialect_registry = NoRegistry
    /\ dialect_get = NoGet
    /\ InitNoDefs
    /\ InitContext
    /\ InitNoRegistry
    /\ InitQueries
    /\ InitSqlText
    /\ InitConnection
    /\ InitDerive
    /\ InitStep
    /\ InitSeed

SpecDialect == InitSqlglot /\ [][NextDialect]_vars

\* the definition registry over any definition file
InitDefinitions ==
    /\ InitAudit
    /\ InitGuid
    /\ InitDialect
    /\ \E defs \in DefinitionFiles : InitDefsWith(defs)
    /\ InitContext
    /\ InitNoRegistry
    /\ InitQueries
    /\ InitSqlText
    /\ InitConnection
    /\ InitDerive
    /\ InitStep
    /\ InitSeed

SpecDefs == InitDefinitions /\ [][NextDefs]_vars

\* the logging context beside a definition registry
CursorDefinitionFiles ==
    [phases : SeqsUpTo(EtlPhaseDefinition, MaxCursorPhases),
     steps : SeqsUpTo(EtlStepDefinition, MaxCursorSteps)]

InitCursor ==
    /\ InitAudit
    /\ InitGuid
    /\ InitDialect
    /\ \E defs \in CursorDefinitionFiles : InitDefsWith(defs)
    /\ InitContext
    /\ InitNoRegistry
    /\ InitQueries
    /\ InitSqlText
    /\ InitConnection
    /\ InitDerive
    /\ InitStep
    /\ InitSeed

SpecCursor == InitCursor /\ [][NextContext]_vars

\* the query registry over any registry file and any set of query files
InitRegistry ==
    /\ InitAudit
    /\ InitGuid
    /\ InitDialect
    /\ InitNoDefs
    /\ InitContext
    /\ \E registry \in Registries,
          fs \in SUBSET {<<QUERIES_PATH, path>> : path \in QueryPaths} :
           InitRegistryWith(registry, fs)
    /\ InitQueries
    /\ InitSqlText
    /\ InitConnection
    /\ InitDerive
    /\ InitStep
    /\ InitSeed

SpecRegistry == InitRegistry /\ [][NextRegistry]_vars

SpecQueries == Init /\ [][NextQueries]_vars

SpecSqlText == Init /\ [][NextSqlText]_vars

SpecConnection == Init /\ [][NextConnection]_vars

SpecDerive == InitSqlglot /\ [][NextDerive]_vars

SpecTotals == Init /\ [][NextTotals]_vars

SpecStep == Init /\ [][NextStep]_vars

SpecWrapper == Init /\ [][NextWrapper]_vars

SpecSeed == Init /\ [][NextSeed]_vars

====
